---- MODULE Spec2Model ----
\* The dual-track recommendation store (useMovieStore) of the MovieSir web
\* client, with the requests it has in flight and the axios response
\* interceptor that sits between the server and the store, the chatbot panel
\* (ChatbotPanel) that calls the store's loadRecommended and resetFilters, the
\* login state of AuthProvider with MainPage's logout effect, and the
\* movie-detail modal (MovieDetailModal) that fetches what the store's
\* detailMovieId names.
EXTENDS Integers, Sequences, FiniteSets, TLC

\* ---------------------------------------------------------------- bounds
MaxMovieId == 3        \* catalogue ids are 1..MaxMovieId
MaxTrackLen == 2       \* longest track a load response delivers
MaxRequests == 2       \* network requests issued in one page lifetime
MaxInflight == 2       \* requests outstanding at the same time

\* ------------------------------------------------------------- constants
NullId == 0            \* null for number | null fields
Null == "null"         \* null for string | null fields

MovieIds == 1..MaxMovieId

\* The server's catalogue: the runtime of each movie.
Runtime(i) == IF i = 1 THEN 90 ELSE IF i = 2 THEN 30 ELSE 15 * i + 15

ServerMovie(i) == [tmdb_id |-> i, runtime |-> Runtime(i)]

\* "HH:MM" strings, character by character.
Time0000 == <<"0", "0", ":", "0", "0">>
Time0230 == <<"0", "2", ":", "3", "0">>
Times == {Time0000, Time0230}

Genres == {"Action"}

\* The ids the detail view is opened with.
DetailIds == {NullId, 1}

LabelADefault == "personalised"      \* the Korean default label of track A
LabelBDefault == "diversity"         \* the Korean default label of track B
ServerLabelA == "label-a"
ServerLabelB == "label-b"

\* The four user-facing messages (Korean in the source).
MsgGeneric == "error while fetching recommendations"
MsgNetwork == "cannot reach the server"
MsgLogin == "login required"
MsgServer == "server error"

\* Failures of a request as axios reports them: an error code and, when the
\* server answered, the HTTP status (0: no response).
Unauthorized == [code |-> "ERR_BAD_REQUEST", status |-> 401]
Errors ==
  { [code |-> "ERR_NETWORK", status |-> 0],
    [code |-> "ERR_BAD_RESPONSE", status |-> 500],
    [code |-> "ERR_BAD_RESPONSE", status |-> 503],
    [code |-> "ERR_BAD_REQUEST", status |-> 404],
    Unauthorized }

\* ------------------------------------------------------- pure functions
DigitValue(c) ==
  CASE c = "0" -> 0 [] c = "1" -> 1 [] c = "2" -> 2 [] c = "3" -> 3
    [] c = "4" -> 4 [] c = "5" -> 5 [] c = "6" -> 6 [] c = "7" -> 7
    [] c = "8" -> 8 [] c = "9" -> 9

\* Number("023") = 23, Number("") = 0
RECURSIVE Number(_)
Number(cs) ==
  IF cs = <<>> THEN 0
  ELSE Number(SubSeq(cs, 1, Len(cs) - 1)) * 10 + DigitValue(cs[Len(cs)])

\* time.split(':')
RECURSIVE Split(_)
Split(cs) ==
  IF \A k \in 1..Len(cs) : cs[k] # ":" THEN <<cs>>
  ELSE LET k == CHOOSE j \in 1..Len(cs) :
                  cs[j] = ":" /\ \A h \in 1..(j - 1) : cs[h] # ":"
       IN <<SubSeq(cs, 1, k - 1)>> \o Split(SubSeq(cs, k + 1, Len(cs)))

\* Mutant: the minutes of the budget are forgotten.
ToMinutesHoursOnly(time) ==
  LET parts == Split(time)
  IN Number(parts[1]) * 60

\* const [hours, minutes] = time.split(':').map(Number); hours * 60 + minutes
ToMinutes(time) ==
  LET parts == Split(time)
  IN Number(parts[1]) * 60 + Number(parts[2])

convertV2MovieToMovie(v2Movie) ==
  [id |-> v2Movie.tmdb_id, tmdb_id |-> v2Movie.tmdb_id,
   runtime |-> v2Movie.runtime, popular |-> FALSE, watched |-> FALSE]

\* movies.map(convertV2MovieToMovie)
ConvertAll(movies) == [k \in 1..Len(movies) |-> convertV2MovieToMovie(movies[k])]

\* movies.filter(m => m.id !== movieId)
RECURSIVE FilterOut(_, _)
FilterOut(movies, movieId) ==
  IF movies = <<>> THEN <<>>
  ELSE IF movies[1].id = movieId THEN FilterOut(Tail(movies), movieId)
  ELSE <<movies[1]>> \o FilterOut(Tail(movies), movieId)

\* Mutant: an absent id is reported at index 0.
FindIndexZeroWhenAbsent(movies, movieId) ==
  IF \E k \in 1..Len(movies) : movies[k].id = movieId
  THEN (CHOOSE k \in 1..Len(movies) :
          movies[k].id = movieId /\ \A h \in 1..(k - 1) : movies[h].id # movieId) - 1
  ELSE 0

\* movies.findIndex(m => m.id === movieId), 0-based, -1 when absent
FindIndex(movies, movieId) ==
  IF \E k \in 1..Len(movies) : movies[k].id = movieId
  THEN (CHOOSE k \in 1..Len(movies) :
          movies[k].id = movieId /\ \A h \in 1..(k - 1) : movies[h].id # movieId) - 1
  ELSE -1

\* movies.reduce((sum, m) => sum + (m.runtime || 0), 0)
RECURSIVE SumRuntime(_)
SumRuntime(movies) ==
  IF movies = <<>> THEN 0
  ELSE SumRuntime(SubSeq(movies, 1, Len(movies) - 1)) + movies[Len(movies)].runtime

\* movies.splice(index, 0, movie): an index past the end inserts at the end
Splice(movies, index, movie) ==
  LET at == IF index > Len(movies) THEN Len(movies) ELSE index
  IN SubSeq(movies, 1, at) \o <<movie>> \o SubSeq(movies, at + 1, Len(movies))

\* genres.includes(g) ? genres.filter(x => x !== g) : [...genres, g]
ToggleIn(genres, genre) ==
  IF \E k \in 1..Len(genres) : genres[k] = genre
  THEN SelectSeq(genres, LAMBDA x : x # genre)
  ELSE Append(genres, genre)

Ids(movies) == {movies[k].id : k \in 1..Len(movies)}
SeqRange(s) == {s[k] : k \in 1..Len(s)}

\* ---------------------------------------------------------------- state
VARIABLES
  filters, userId,
  trackAMovies, trackATotalRuntime, trackALabel,
  trackBMovies, trackBTotalRuntime, trackBLabel,
  excludedIds,
  recommendedMovies, popularMovies,
  detailMovieId, isLoading, error,
  pending,      \* the requests in flight, each with what its caller captured
  nRequests,    \* requests issued so far
  last,         \* the handler of a response that ran last
  panel,        \* the chatbot panel: isOpen, its messages, hasRecommended, its timer
  auth,         \* AuthProvider's user and the redirect the 401 interceptor starts
  modal         \* the detail modal: the detail it holds, its isLoading and error

storeVars ==
  <<filters, userId, trackAMovies, trackATotalRuntime, trackALabel,
    trackBMovies, trackBTotalRuntime, trackBLabel, excludedIds,
    recommendedMovies, popularMovies, detailMovieId, isLoading, error>>

\* What the components around the store keep.
uiVars == <<panel, auth, modal>>

vars == <<storeVars, pending, nRequests, last, panel, auth, modal>>

DefaultFilters == [time |-> Time0000, genres |-> <<>>, excludeAdult |-> FALSE]

NoMovie == [id |-> NullId, tmdb_id |-> NullId, runtime |-> 0,
            popular |-> FALSE, watched |-> FALSE]

\* The blank request record; a call fills in what it captures.
NoReq ==
  [rid |-> 0, kind |-> "none", phase |-> "none", movieId |-> NullId,
   movieIndex |-> -1, lenAtCall |-> 0, newExcludedIds |-> <<>>,
   remainingRuntime |-> 0, targetRuntime |-> 0, newMovie |-> NoMovie]

\* The chatbot panel before it is opened. messages is what the message list
\* shows: nothing, the filter block, the "searching" line or the result with
\* its back-to-start button; timer is the 200 ms timeout of the close effect;
\* closure is the hasRecommended that the handlers held by the messages see,
\* the one of the render that made the filter block; isRecommended is the
\* state of the parent (Chatbot) that onRecommended sets.
PanelClosed ==
  [isOpen |-> FALSE, messages |-> "none", hasRecommended |-> FALSE,
   timer |-> FALSE, closure |-> FALSE, isRecommended |-> FALSE]

\* AuthProvider before a user is restored or logs in: user is null, and the
\* page is not on its way to /?expired=true.
SignedOut == [isAuthenticated |-> FALSE, expired |-> FALSE]

\* MovieDetailModal's useState values: movieDetail (the movie_id of the detail
\* it holds, or null), isLoading and error.
MsgDetail == "cannot load the movie"
ModalEmpty == [movieDetail |-> NullId, isLoading |-> FALSE, error |-> Null]

Init ==
  /\ filters = DefaultFilters
  /\ userId = NullId
  /\ trackAMovies = <<>>
  /\ trackATotalRuntime = 0
  /\ trackALabel = LabelADefault
  /\ trackBMovies = <<>>
  /\ trackBTotalRuntime = 0
  /\ trackBLabel = LabelBDefault
  /\ excludedIds = <<>>
  /\ recommendedMovies = <<>>
  /\ popularMovies = <<>>
  /\ detailMovieId = NullId
  /\ isLoading = FALSE
  /\ error = Null
  /\ pending = {}
  /\ nRequests = 0
  /\ last = "none"
  /\ panel = PanelClosed
  /\ auth = SignedOut
  /\ modal = ModalEmpty

\* Requests are told apart by the lowest number no pending request carries.
FreeSlot == CHOOSE k \in 1..(MaxInflight + 1) : \A r \in pending : r.rid # k

CanRequest == nRequests < MaxRequests /\ Cardinality(pending) < MaxInflight

\* ------------------------------------------------------ local operations
\* Mutant: the time is set and the exclusion list is left as it is.
setTimeKeepsExcluded(time) ==
  /\ filters' = [filters EXCEPT !.time = time]
  /\ UNCHANGED last
  /\ UNCHANGED <<userId, trackAMovies, trackATotalRuntime, trackALabel,
                 trackBMovies, trackBTotalRuntime, trackBLabel, excludedIds,
                 recommendedMovies, popularMovies, detailMovieId, isLoading,
                 error, pending, nRequests>>

setTime(time) ==
  /\ filters' = [filters EXCEPT !.time = time]
  /\ excludedIds' = <<>>
  /\ UNCHANGED last
  /\ UNCHANGED <<userId, trackAMovies, trackATotalRuntime, trackALabel,
                 trackBMovies, trackBTotalRuntime, trackBLabel,
                 recommendedMovies, popularMovies, detailMovieId, isLoading,
                 error, pending, nRequests>>

\* Mutant: the genre is toggled in a filter selection built anew, so the time
\* and the adult flag fall back to their defaults.
toggleGenreResetsOthers(genre) ==
  /\ filters' = [DefaultFilters EXCEPT !.genres = ToggleIn(filters.genres, genre)]
  /\ excludedIds' = <<>>
  /\ UNCHANGED last
  /\ UNCHANGED <<userId, trackAMovies, trackATotalRuntime, trackALabel,
                 trackBMovies, trackBTotalRuntime, trackBLabel,
                 recommendedMovies, popularMovies, detailMovieId, isLoading,
                 error, pending, nRequests>>

toggleGenre(genre) ==
  /\ filters' = [filters EXCEPT !.genres = ToggleIn(filters.genres, genre)]
  /\ excludedIds' = <<>>
  /\ UNCHANGED last
  /\ UNCHANGED <<userId, trackAMovies, trackATotalRuntime, trackALabel,
                 trackBMovies, trackBTotalRuntime, trackBLabel,
                 recommendedMovies, popularMovies, detailMovieId, isLoading,
                 error, pending, nRequests>>

toggleExcludeAdult ==
  /\ filters' = [filters EXCEPT !.excludeAdult = ~filters.excludeAdult]
  /\ excludedIds' = <<>>
  /\ UNCHANGED last
  /\ UNCHANGED <<userId, trackAMovies, trackATotalRuntime, trackALabel,
                 trackBMovies, trackBTotalRuntime, trackBLabel,
                 recommendedMovies, popularMovies, detailMovieId, isLoading,
                 error, pending, nRequests>>

\* Mutant: an id that is in neither track is not accepted: the detail view is
\* closed instead.
setDetailMovieIdIfListed(movieId) ==
  /\ detailMovieId' =
       IF movieId = NullId \/ movieId \in Ids(trackAMovies) \cup Ids(trackBMovies)
       THEN movieId ELSE NullId
  /\ UNCHANGED last
  /\ UNCHANGED <<filters, userId, trackAMovies, trackATotalRuntime,
                 trackALabel, trackBMovies, trackBTotalRuntime, trackBLabel,
                 excludedIds, recommendedMovies, popularMovies, isLoading,
                 error, pending, nRequests>>

setDetailMovieId(movieId) ==
  /\ detailMovieId' = movieId
  /\ UNCHANGED last
  /\ UNCHANGED <<filters, userId, trackAMovies, trackATotalRuntime,
                 trackALabel, trackBMovies, trackBTotalRuntime, trackBLabel,
                 excludedIds, recommendedMovies, popularMovies, isLoading,
                 error, pending, nRequests>>

\* The state resetFilters() writes; isLoading, error, detailMovieId and userId
\* are not among the fields it sets.
ResetFields ==
  /\ filters' = DefaultFilters
  /\ trackAMovies' = <<>>
  /\ trackATotalRuntime' = 0
  /\ trackALabel' = LabelADefault
  /\ trackBMovies' = <<>>
  /\ trackBTotalRuntime' = 0
  /\ trackBLabel' = LabelBDefault
  /\ excludedIds' = <<>>
  /\ recommendedMovies' = <<>>
  /\ popularMovies' = <<>>

resetFilters ==
  /\ ResetFields
  /\ UNCHANGED last
  /\ UNCHANGED <<userId, detailMovieId, isLoading, error, pending, nRequests>>

\* ---------------------------------------------------------- the server
\* The body of a successful POST /api/v2/recommend: two tracks, each with its
\* movies, the server's sum of their runtimes and a label. The server ranks
\* its catalogue by id: track A gets the first movies, track B the next ones.
RecommendResponse(a, b) ==
  LET moviesA == [k \in 1..Len(a) |-> ServerMovie(a[k])]
      moviesB == [k \in 1..Len(b) |-> ServerMovie(b[k])]
  IN [track_a |-> [movies |-> moviesA,
                   total_runtime |-> SumRuntime(moviesA),
                   label |-> ServerLabelA],
      track_b |-> [movies |-> moviesB,
                   total_runtime |-> SumRuntime(moviesB),
                   label |-> ServerLabelB]]

\* The ids of the movies a response to POST /api/v2/recommend carries in
\* track_a and track_b.
Responses ==
  {<<[k \in 1..n[1] |-> k], [k \in 1..n[2] |-> n[1] + k]>> :
     n \in {m \in (0..MaxTrackLen) \X (0..MaxTrackLen) : m[1] + m[2] <= MaxMovieId}}

\* The movies POST /api/v2/recommend/single may answer with: any catalogue
\* movie that the request does not exclude.
Candidates(req) == MovieIds \ SeqRange(req.newExcludedIds)

\* ------------------------------------------------------- loadRecommended
\* The ids of track A alone.
AllMovieIdsTrackAOnly(result) ==
  [k \in 1..Len(result.track_a.movies) |-> result.track_a.movies[k].tmdb_id]

\* [...track_a.movies.map(m => m.tmdb_id), ...track_b.movies.map(m => m.tmdb_id)]
AllMovieIds(result) ==
  [k \in 1..Len(result.track_a.movies) |-> result.track_a.movies[k].tmdb_id]
  \o [k \in 1..Len(result.track_b.movies) |-> result.track_b.movies[k].tmdb_id]

\* Mutant: the start of a load leaves the error of the last one in place.
loadRecommendedKeepsError ==
  /\ CanRequest
  /\ LET req == [NoReq EXCEPT !.rid = FreeSlot, !.kind = "load",
                              !.phase = "awaiting"]
     IN /\ pending' = pending \cup {req}
        /\ UNCHANGED last
  /\ isLoading' = TRUE
  /\ nRequests' = nRequests + 1
  /\ UNCHANGED <<filters, userId, trackAMovies, trackATotalRuntime,
                 trackALabel, trackBMovies, trackBTotalRuntime, trackBLabel,
                 excludedIds, recommendedMovies, popularMovies, detailMovieId,
                 error>>

\* loadRecommended() up to its await: the flags are set and the request leaves.
loadRecommended ==
  /\ CanRequest
  /\ LET req == [NoReq EXCEPT !.rid = FreeSlot, !.kind = "load",
                              !.phase = "awaiting"]
     IN /\ pending' = pending \cup {req}
        /\ UNCHANGED last
  /\ isLoading' = TRUE
  /\ error' = Null
  /\ nRequests' = nRequests + 1
  /\ UNCHANGED <<filters, userId, trackAMovies, trackATotalRuntime,
                 trackALabel, trackBMovies, trackBTotalRuntime, trackBLabel,
                 excludedIds, recommendedMovies, popularMovies, detailMovieId>>

\* Mutant: the ids of the response are added to the exclusion list that is
\* there, not stored in its place.
loadRecommendedSuccessAddsIds(req, a, b) ==
  /\ req \in pending /\ req.kind = "load" /\ req.phase = "awaiting"
  /\ LET result == RecommendResponse(a, b)
         newTrackA == ConvertAll(result.track_a.movies)
         newTrackB == ConvertAll(result.track_b.movies)
         allMovieIds == AllMovieIds(result)
     IN /\ trackAMovies' = newTrackA
        /\ trackATotalRuntime' = result.track_a.total_runtime
        /\ trackALabel' = result.track_a.label
        /\ trackBMovies' = newTrackB
        /\ trackBTotalRuntime' = result.track_b.total_runtime
        /\ trackBLabel' = result.track_b.label
        /\ excludedIds' = excludedIds \o allMovieIds
        /\ recommendedMovies' = newTrackA
        /\ popularMovies' = newTrackB
  /\ isLoading' = FALSE
  /\ error' = Null
  /\ pending' = pending \ {req}
  /\ last' = "loadRecommendedSuccess"
  /\ UNCHANGED <<filters, userId, detailMovieId, nRequests>>

\* The try branch after the await: the response is mapped and stored.
loadRecommendedSuccess(req, a, b) ==
  /\ req \in pending /\ req.kind = "load" /\ req.phase = "awaiting"
  /\ LET result == RecommendResponse(a, b)
         newTrackA == ConvertAll(result.track_a.movies)
         newTrackB == ConvertAll(result.track_b.movies)
         allMovieIds == AllMovieIds(result)
     IN /\ trackAMovies' = newTrackA
        /\ trackATotalRuntime' = result.track_a.total_runtime
        /\ trackALabel' = result.track_a.label
        /\ trackBMovies' = newTrackB
        /\ trackBTotalRuntime' = result.track_b.total_runtime
        /\ trackBLabel' = result.track_b.label
        /\ excludedIds' = allMovieIds
        /\ recommendedMovies' = newTrackA
        /\ popularMovies' = newTrackB
  /\ isLoading' = FALSE
  /\ error' = Null
  /\ pending' = pending \ {req}
  /\ last' = "loadRecommendedSuccess"
  /\ UNCHANGED <<filters, userId, detailMovieId, nRequests>>

\* The rejected branch of the axios response interceptor. On a 401 it clears
\* the user and resets the store, then passes the error on (Promise.reject);
\* the request is then "rejected" and its caller's catch block is next. Any
\* other failure is passed on with the store untouched and reaches the catch
\* block in the same turn of the event loop, so those take no step here.
responseInterceptorError(req) ==
  /\ req \in pending /\ req.phase = "awaiting"
  /\ userId' = NullId
  /\ ResetFields
  /\ pending' = (pending \ {req}) \cup {[req EXCEPT !.phase = "rejected"]}
  /\ last' = "responseInterceptorError"
  /\ UNCHANGED <<detailMovieId, isLoading, error, nRequests>>

\* The request failed with err and the interceptor has passed it on.
Caught(req, err) ==
  \/ req.phase = "awaiting" /\ err.status # 401
  \/ req.phase = "rejected" /\ err = Unauthorized

\* The message loadRecommended's catch block picks for an error.
ErrorMessage(err) ==
  IF err.code = "ERR_NETWORK" THEN MsgNetwork
  ELSE IF err.status = 401 THEN MsgLogin
  ELSE IF err.status = 500 THEN MsgServer
  ELSE MsgGeneric

\* A catch block that records the error and leaves the tracks as they are.
loadRecommendedCatchKeepsTracks(req, err) ==
  /\ req \in pending /\ req.kind = "load" /\ Caught(req, err)
  /\ error' = ErrorMessage(err)
  /\ isLoading' = FALSE
  /\ pending' = pending \ {req}
  /\ last' = "loadRecommendedCatch"
  /\ UNCHANGED <<filters, userId, trackAMovies, trackATotalRuntime,
                 trackALabel, trackBMovies, trackBTotalRuntime, trackBLabel,
                 excludedIds, recommendedMovies, popularMovies, detailMovieId,
                 nRequests>>

\* Mutant: a catch block that records the error and empties the tracks but
\* leaves isLoading as it is.
loadRecommendedCatchKeepsLoading(req, err) ==
  /\ req \in pending /\ req.kind = "load" /\ Caught(req, err)
  /\ error' = ErrorMessage(err)
  /\ trackAMovies' = <<>>
  /\ trackBMovies' = <<>>
  /\ recommendedMovies' = <<>>
  /\ popularMovies' = <<>>
  /\ pending' = pending \ {req}
  /\ last' = "loadRecommendedCatch"
  /\ UNCHANGED <<filters, userId, trackATotalRuntime, trackALabel,
                 trackBTotalRuntime, trackBLabel, excludedIds, detailMovieId,
                 isLoading, nRequests>>

\* The catch block of loadRecommended.
loadRecommendedCatch(req, err) ==
  /\ req \in pending /\ req.kind = "load" /\ Caught(req, err)
  /\ error' = ErrorMessage(err)
  /\ isLoading' = FALSE
  /\ trackAMovies' = <<>>
  /\ trackBMovies' = <<>>
  /\ recommendedMovies' = <<>>
  /\ popularMovies' = <<>>
  /\ pending' = pending \ {req}
  /\ last' = "loadRecommendedCatch"
  /\ UNCHANGED <<filters, userId, trackATotalRuntime, trackALabel,
                 trackBTotalRuntime, trackBLabel, excludedIds, detailMovieId,
                 nRequests>>

\* -------------------------------------------------- replace one movie
\* removeRecommendedMovie(movieId) up to its await. An id that is not in the track
\* returns at once, so the call is no step at all; otherwise the index, the
\* exclusion list and the runtimes are captured and the request leaves. The
\* store is not written here.
removeRecommendedMovie(movieId) ==
  LET movieIndex == FindIndex(trackAMovies, movieId)
      found == movieIndex + 1 \in 1..Len(trackAMovies)   \* movieToRemove is defined
  IN /\ found /\ movieIndex # -1               \* otherwise the call returns
     /\ CanRequest
     /\ LET newTrackMovies == FilterOut(trackAMovies, movieId)
            newExcludedIds == Append(excludedIds, movieId)
            userInputTime == ToMinutes(filters.time)
            remainingRuntime == SumRuntime(newTrackMovies)
            targetRuntime == userInputTime - remainingRuntime
            req == [NoReq EXCEPT !.rid = FreeSlot, !.kind = "a",
                                 !.phase = "awaiting",
                                 !.movieId = movieId,
                                 !.movieIndex = movieIndex,
                                 !.lenAtCall = Len(trackAMovies),
                                 !.newExcludedIds = newExcludedIds,
                                 !.remainingRuntime = remainingRuntime,
                                 !.targetRuntime = targetRuntime]
        IN /\ pending' = pending \cup {req}
           /\ UNCHANGED last
     /\ nRequests' = nRequests + 1
     /\ UNCHANGED storeVars

\* The write of removeRecommendedMovie with the total stored in the other
\* track's field, as a copy of removePopularMovie's write would.
removeRecommendedMovieApplyOtherTotal(req) ==
  /\ req \in pending /\ req.kind = "a" /\ req.phase = "delay"
  /\ LET updatedMovies == Splice(FilterOut(trackAMovies, req.movieId),
                                 req.movieIndex, req.newMovie)
     IN /\ trackAMovies' = updatedMovies
        /\ recommendedMovies' = updatedMovies
  /\ trackBTotalRuntime' = req.remainingRuntime + req.newMovie.runtime
  /\ excludedIds' = Append(req.newExcludedIds, req.newMovie.id)
  /\ pending' = pending \ {req}
  /\ last' = "removeRecommendedMovieApply"
  /\ UNCHANGED <<filters, userId, trackALabel, trackBMovies,
                 trackATotalRuntime, trackBLabel, popularMovies,
                 detailMovieId, isLoading, error, nRequests>>

\* After the response's movie was converted and the 300 ms pause is over:
\* the removal and the insertion in one set().
removeRecommendedMovieApply(req) ==
  /\ req \in pending /\ req.kind = "a" /\ req.phase = "delay"
  /\ LET updatedMovies == Splice(FilterOut(trackAMovies, req.movieId),
                                 req.movieIndex, req.newMovie)
     IN /\ trackAMovies' = updatedMovies
        /\ recommendedMovies' = updatedMovies
  /\ trackATotalRuntime' = req.remainingRuntime + req.newMovie.runtime
  /\ excludedIds' = Append(req.newExcludedIds, req.newMovie.id)
  /\ pending' = pending \ {req}
  /\ last' = "removeRecommendedMovieApply"
  /\ UNCHANGED <<filters, userId, trackALabel, trackBMovies,
                 trackBTotalRuntime, trackBLabel, popularMovies,
                 detailMovieId, isLoading, error, nRequests>>

\* removePopularMovie(movieId) up to its await. An id that is not in the track
\* returns at once, so the call is no step at all; otherwise the index, the
\* exclusion list and the runtimes are captured and the request leaves. The
\* store is not written here.
removePopularMovie(movieId) ==
  LET movieIndex == FindIndex(trackBMovies, movieId)
      found == movieIndex + 1 \in 1..Len(trackBMovies)   \* movieToRemove is defined
  IN /\ found /\ movieIndex # -1               \* otherwise the call returns
     /\ CanRequest
     /\ LET newTrackMovies == FilterOut(trackBMovies, movieId)
            newExcludedIds == Append(excludedIds, movieId)
            userInputTime == ToMinutes(filters.time)
            remainingRuntime == SumRuntime(newTrackMovies)
            targetRuntime == userInputTime - remainingRuntime
            req == [NoReq EXCEPT !.rid = FreeSlot, !.kind = "b",
                                 !.phase = "awaiting",
                                 !.movieId = movieId,
                                 !.movieIndex = movieIndex,
                                 !.lenAtCall = Len(trackBMovies),
                                 !.newExcludedIds = newExcludedIds,
                                 !.remainingRuntime = remainingRuntime,
                                 !.targetRuntime = targetRuntime]
        IN /\ pending' = pending \cup {req}
           /\ UNCHANGED last
     /\ nRequests' = nRequests + 1
     /\ UNCHANGED storeVars

\* Mutant: the write of removePopularMovie without the popularMovies field.
removePopularMovieApplyTrackOnly(req) ==
  /\ req \in pending /\ req.kind = "b" /\ req.phase = "delay"
  /\ LET updatedMovies == Splice(FilterOut(trackBMovies, req.movieId),
                                 req.movieIndex, req.newMovie)
     IN trackBMovies' = updatedMovies
  /\ trackBTotalRuntime' = req.remainingRuntime + req.newMovie.runtime
  /\ excludedIds' = Append(req.newExcludedIds, req.newMovie.id)
  /\ pending' = pending \ {req}
  /\ last' = "removePopularMovieApply"
  /\ UNCHANGED <<filters, userId, trackBLabel, trackAMovies,
                 trackATotalRuntime, trackALabel, recommendedMovies,
                 popularMovies, detailMovieId, isLoading, error, nRequests>>

\* After the response's movie was converted and the 300 ms pause is over:
\* the removal and the insertion in one set().
removePopularMovieApply(req) ==
  /\ req \in pending /\ req.kind = "b" /\ req.phase = "delay"
  /\ LET updatedMovies == Splice(FilterOut(trackBMovies, req.movieId),
                                 req.movieIndex, req.newMovie)
     IN /\ trackBMovies' = updatedMovies
        /\ popularMovies' = updatedMovies
  /\ trackBTotalRuntime' = req.remainingRuntime + req.newMovie.runtime
  /\ excludedIds' = Append(req.newExcludedIds, req.newMovie.id)
  /\ pending' = pending \ {req}
  /\ last' = "removePopularMovieApply"
  /\ UNCHANGED <<filters, userId, trackBLabel, trackAMovies,
                 trackATotalRuntime, trackALabel, recommendedMovies,
                 detailMovieId, isLoading, error, nRequests>>

\* postReRecommendSingle resolves with {success: true, movie}: the movie is
\* converted and the caller waits 300 ms before it writes the store.
reRecommendSuccess(req, i) ==
  /\ req \in pending /\ req.kind \in {"a", "b"} /\ req.phase = "awaiting"
  /\ i \in Candidates(req)
  /\ LET waiting == [req EXCEPT !.phase = "delay",
                                !.newMovie = convertV2MovieToMovie(ServerMovie(i))]
     IN /\ pending' = (pending \ {req}) \cup {waiting}
        /\ UNCHANGED last
  /\ UNCHANGED <<storeVars, nRequests>>

\* A no-candidate branch that takes the movie out of the track and recomputes
\* the total, as a removal written before the request would leave it.
reRecommendNoCandidateRemoves(req) ==
  /\ req \in pending /\ req.kind \in {"a", "b"} /\ req.phase = "awaiting"
  /\ IF req.kind = "a"
     THEN /\ trackAMovies' = FilterOut(trackAMovies, req.movieId)
          /\ recommendedMovies' = FilterOut(trackAMovies, req.movieId)
          /\ trackATotalRuntime' = SumRuntime(FilterOut(trackAMovies, req.movieId))
          /\ UNCHANGED <<trackBMovies, popularMovies, trackBTotalRuntime>>
     ELSE /\ trackBMovies' = FilterOut(trackBMovies, req.movieId)
          /\ popularMovies' = FilterOut(trackBMovies, req.movieId)
          /\ trackBTotalRuntime' = SumRuntime(FilterOut(trackBMovies, req.movieId))
          /\ UNCHANGED <<trackAMovies, recommendedMovies, trackATotalRuntime>>
  /\ pending' = pending \ {req}
  /\ last' = "reRecommendNoCandidate"
  /\ UNCHANGED <<filters, userId, trackALabel, trackBLabel, excludedIds,
                 detailMovieId, isLoading, error, nRequests>>

\* postReRecommendSingle resolves with {success: false}: the else branch
\* logs and the call ends.
reRecommendNoCandidate(req) ==
  /\ req \in pending /\ req.kind \in {"a", "b"} /\ req.phase = "awaiting"
  /\ pending' = pending \ {req}
  /\ last' = "reRecommendNoCandidate"
  /\ UNCHANGED <<storeVars, nRequests>>

\* A catch block that leaves the track without the movie the call was for.
reRecommendCatchRemoves(req) ==
  /\ req \in pending /\ req.kind \in {"a", "b"}
  /\ req.phase \in {"awaiting", "rejected"}
  /\ IF req.kind = "a"
     THEN /\ trackAMovies' = FilterOut(trackAMovies, req.movieId)
          /\ recommendedMovies' = FilterOut(trackAMovies, req.movieId)
          /\ UNCHANGED <<trackBMovies, popularMovies>>
     ELSE /\ trackBMovies' = FilterOut(trackBMovies, req.movieId)
          /\ popularMovies' = FilterOut(trackBMovies, req.movieId)
          /\ UNCHANGED <<trackAMovies, recommendedMovies>>
  /\ pending' = pending \ {req}
  /\ last' = "reRecommendCatch"
  /\ UNCHANGED <<filters, userId, trackATotalRuntime, trackALabel,
                 trackBTotalRuntime, trackBLabel, excludedIds, detailMovieId,
                 isLoading, error, nRequests>>

\* The catch block of removeRecommendedMovie / removePopularMovie, reached
\* when the request failed (after the interceptor's reset on a 401): it logs.
reRecommendCatch(req) ==
  /\ req \in pending /\ req.kind \in {"a", "b"}
  /\ req.phase \in {"awaiting", "rejected"}
  /\ pending' = pending \ {req}
  /\ last' = "reRecommendCatch"
  /\ UNCHANGED <<storeVars, nRequests>>

\* ------------------------------------------------------- specification
\* The store on its own: its operations called in any order by any caller, the
\* components around it left as they are.
Next ==
  \/ \E time \in Times : setTime(time) /\ UNCHANGED uiVars
  \/ \E genre \in Genres : toggleGenre(genre) /\ UNCHANGED uiVars
  \/ toggleExcludeAdult /\ UNCHANGED uiVars
  \/ \E movieId \in DetailIds : setDetailMovieId(movieId) /\ UNCHANGED uiVars
  \/ resetFilters /\ UNCHANGED uiVars
  \/ loadRecommended /\ UNCHANGED uiVars
  \/ \E req \in pending, r \in Responses :
       loadRecommendedSuccess(req, r[1], r[2]) /\ UNCHANGED uiVars
  \/ \E req \in pending : responseInterceptorError(req) /\ UNCHANGED uiVars
  \/ \E req \in pending, err \in Errors :
       loadRecommendedCatch(req, err) /\ UNCHANGED uiVars
  \/ \E movieId \in MovieIds : removeRecommendedMovie(movieId) /\ UNCHANGED uiVars
  \/ \E movieId \in MovieIds : removePopularMovie(movieId) /\ UNCHANGED uiVars
  \/ \E req \in pending, i \in MovieIds :
       reRecommendSuccess(req, i) /\ UNCHANGED uiVars
  \/ \E req \in pending : reRecommendNoCandidate(req) /\ UNCHANGED uiVars
  \/ \E req \in pending : removeRecommendedMovieApply(req) /\ UNCHANGED uiVars
  \/ \E req \in pending : removePopularMovieApply(req) /\ UNCHANGED uiVars
  \/ \E req \in pending : reRecommendCatch(req) /\ UNCHANGED uiVars

Spec == Init /\ [][Next]_vars

\* The store once a first load has put movies 1 and 2 in track A and nothing in
\* track B, with no request out; requests are counted from here on.
InitLoaded ==
  /\ filters = DefaultFilters
  /\ userId = NullId
  /\ trackAMovies = ConvertAll(RecommendResponse(<<1, 2>>, <<>>).track_a.movies)
  /\ trackATotalRuntime = RecommendResponse(<<1, 2>>, <<>>).track_a.total_runtime
  /\ trackALabel = ServerLabelA
  /\ trackBMovies = <<>>
  /\ trackBTotalRuntime = 0
  /\ trackBLabel = ServerLabelB
  /\ excludedIds = AllMovieIds(RecommendResponse(<<1, 2>>, <<>>))
  /\ recommendedMovies = trackAMovies
  /\ popularMovies = <<>>
  /\ detailMovieId = NullId
  /\ isLoading = FALSE
  /\ error = Null
  /\ pending = {}
  /\ nRequests = 0
  /\ last = "loadRecommendedSuccess"
  /\ panel = PanelClosed
  /\ auth = SignedOut
  /\ modal = ModalEmpty

\* The store's operations in any order, from a loaded store.
SpecLoaded == InitLoaded /\ [][Next]_vars

\* What the load behind InitLoaded delivered.
Delivered == RecommendResponse(<<1, 2>>, <<>>)

\* Replacements of track A's movies in any interleaving, and the detail view
\* opened and closed: no load, no reset and no filter edit after the load that
\* filled the track.
NextReplace ==
  \/ \E movieId \in DetailIds : setDetailMovieId(movieId) /\ UNCHANGED uiVars
  \/ \E movieId \in MovieIds : removeRecommendedMovie(movieId) /\ UNCHANGED uiVars
  \/ \E req \in pending, i \in MovieIds :
       reRecommendSuccess(req, i) /\ UNCHANGED uiVars
  \/ \E req \in pending : reRecommendNoCandidate(req) /\ UNCHANGED uiVars
  \/ \E req \in pending : removeRecommendedMovieApply(req) /\ UNCHANGED uiVars
  \/ \E req \in pending : reRecommendCatch(req) /\ UNCHANGED uiVars

SpecReplace == InitLoaded /\ [][NextReplace]_vars

\* The request numbered k is answered: its response is stored, or its failure
\* goes through the interceptor and the catch block.
loadAnswered(k) ==
  \E req \in pending :
    /\ req.rid = k
    /\ \/ \E r \in Responses : loadRecommendedSuccess(req, r[1], r[2])
       \/ responseInterceptorError(req)
       \/ \E err \in Errors : loadRecommendedCatch(req, err)
    /\ UNCHANGED uiVars

\* Loads, overlapping or not, with filter edits and resets between them.
NextLoads ==
  \/ \E time \in Times : setTime(time) /\ UNCHANGED uiVars
  \/ resetFilters /\ UNCHANGED uiVars
  \/ loadRecommended /\ UNCHANGED uiVars
  \/ \E k \in 1..MaxInflight : loadAnswered(k)

\* Each request that was sent is answered in the end: a single round trip, no
\* retry.
SpecLoads ==
  /\ Init /\ [][NextLoads]_vars
  /\ \A k \in 1..MaxInflight : WF_vars(loadAnswered(k))

\* ------------------------------------------------------ the chatbot panel
\* The panel is opened (Chatbot's button, isOpen true): the cleanup of the
\* close effect clears its timer, and the open effect shows the filter block
\* when the message list is empty; the block's onApply is the
\* handleApplyFilters of this render.
openPanel ==
  /\ ~panel.isOpen
  /\ panel' = [panel EXCEPT
                 !.isOpen = TRUE, !.timer = FALSE,
                 !.messages = IF @ = "none" THEN "filter" ELSE @,
                 !.closure = IF panel.messages = "none"
                             THEN panel.hasRecommended ELSE @]
  /\ UNCHANGED <<storeVars, pending, nRequests, last>>

\* The panel is closed (backdrop or button, isOpen false): the close effect
\* starts its 200 ms timer, and Chatbot clears its isRecommended.
closePanel ==
  /\ panel.isOpen
  /\ panel' = [panel EXCEPT !.isOpen = FALSE, !.timer = TRUE,
                            !.isRecommended = FALSE]
  /\ UNCHANGED <<storeVars, pending, nRequests, last>>

\* The timer of the close effect fires: the messages and hasRecommended are
\* cleared and resetFilters() is called.
closeTimeout ==
  /\ panel.timer
  /\ panel' = [panel EXCEPT !.messages = "none", !.hasRecommended = FALSE,
                            !.timer = FALSE]
  /\ resetFilters

\* The filter block, or the result with its buttons, is on screen and can be
\* clicked (the closed panel has pointer-events-none).
FilterBlockShown == panel.isOpen /\ panel.messages = "filter"
ResultShown == panel.isOpen /\ panel.messages = "result"

\* handleApplyFilters, the onApply of the filter block; hasRecommended is the
\* value its closure holds.
handleApplyFilters ==
  /\ FilterBlockShown
  /\ LET hasRecommended == panel.closure
     IN IF hasRecommended
        THEN UNCHANGED vars
        ELSE /\ panel' = [panel EXCEPT !.hasRecommended = TRUE,
                                       !.messages = "loading"]
             /\ loadRecommended

\* handleResetFilters, the back-to-start button of the result; the filter
\* block it shows gets the handleApplyFilters of the handler's own render.
handleResetFilters ==
  /\ ResultShown
  /\ panel' = [panel EXCEPT !.hasRecommended = FALSE, !.messages = "filter"]
  /\ resetFilters

\* The then() of handleApplyFilters: loadRecommended() resolves after its try
\* branch and after its catch block alike (the catch block does not throw
\* again); the parent is told (onRecommended(true)) and the result is shown.
\* The catch() after it is never reached.
loadRecommendedThen ==
  panel' = [panel EXCEPT !.messages = "result", !.isRecommended = TRUE]

\* The panel and what it calls: the filter block edits the filters while it is
\* shown, loads are started by handleApplyFilters only, the store is reset by
\* the close timer and the back-to-start button only, and the cards of the
\* result replace their movie.
NextPanel ==
  \/ openPanel /\ UNCHANGED <<auth, modal>>
  \/ closePanel /\ UNCHANGED <<auth, modal>>
  \/ closeTimeout /\ UNCHANGED <<auth, modal>>
  \/ handleApplyFilters /\ UNCHANGED <<auth, modal>>
  \/ handleResetFilters /\ UNCHANGED <<auth, modal>>
  \/ \E time \in Times : FilterBlockShown /\ setTime(time) /\ UNCHANGED uiVars
  \/ \E genre \in Genres : FilterBlockShown /\ toggleGenre(genre) /\ UNCHANGED uiVars
  \/ FilterBlockShown /\ toggleExcludeAdult /\ UNCHANGED uiVars
  \/ \E req \in pending, r \in Responses :
       /\ loadRecommendedSuccess(req, r[1], r[2]) /\ loadRecommendedThen
       /\ UNCHANGED <<auth, modal>>
  \/ \E req \in pending : responseInterceptorError(req) /\ UNCHANGED uiVars
  \/ \E req \in pending, err \in Errors :
       /\ loadRecommendedCatch(req, err) /\ loadRecommendedThen
       /\ UNCHANGED <<auth, modal>>
  \/ \E movieId \in MovieIds :
       ResultShown /\ removeRecommendedMovie(movieId) /\ UNCHANGED uiVars
  \/ \E movieId \in MovieIds :
       ResultShown /\ removePopularMovie(movieId) /\ UNCHANGED uiVars
  \/ \E req \in pending, i \in MovieIds :
       reRecommendSuccess(req, i) /\ UNCHANGED uiVars
  \/ \E req \in pending : reRecommendNoCandidate(req) /\ UNCHANGED uiVars
  \/ \E req \in pending : removeRecommendedMovieApply(req) /\ UNCHANGED uiVars
  \/ \E req \in pending : removePopularMovieApply(req) /\ UNCHANGED uiVars
  \/ \E req \in pending : reRecommendCatch(req) /\ UNCHANGED uiVars

SpecPanel == Init /\ [][NextPanel]_vars

\* ------------------------------------------------------------ the session
\* The id of the user who logs in.
TheUser == 1

\* login() or the restore of a saved user: setUser(user), and AuthProvider's
\* effect copies the id into the store.
login ==
  /\ ~auth.isAuthenticated /\ ~auth.expired
  /\ auth' = [auth EXCEPT !.isAuthenticated = TRUE]
  /\ userId' = TheUser
  /\ UNCHANGED <<filters, trackAMovies, trackATotalRuntime, trackALabel,
                 trackBMovies, trackBTotalRuntime, trackBLabel, excludedIds,
                 recommendedMovies, popularMovies, detailMovieId, isLoading,
                 error, pending, nRequests, last, panel, modal>>

\* MainPage's effect on isAuthenticated: an open chatbot is closed, which
\* starts the panel's close timer.
LoggedOutPanel ==
  IF panel.isOpen
  THEN [panel EXCEPT !.isOpen = FALSE, !.timer = TRUE, !.isRecommended = FALSE]
  ELSE panel

\* logout(), the finally block: setUser(null); AuthProvider's effect sets the
\* store's userId to null and MainPage's effect closes the chatbot. The store's
\* resetFilters is not called.
logout ==
  /\ auth.isAuthenticated
  /\ auth' = [auth EXCEPT !.isAuthenticated = FALSE]
  /\ userId' = NullId
  /\ panel' = LoggedOutPanel
  /\ UNCHANGED <<filters, trackAMovies, trackATotalRuntime, trackALabel,
                 trackBMovies, trackBTotalRuntime, trackBLabel, excludedIds,
                 recommendedMovies, popularMovies, detailMovieId, isLoading,
                 error, pending, nRequests, last, modal>>

\* Chatbot's button: it closes the open panel, asks a visitor who is not
\* logged in to log in, and opens the panel otherwise.
handleChatbotButtonClick ==
  /\ IF panel.isOpen THEN closePanel
     ELSE IF ~auth.isAuthenticated THEN UNCHANGED vars
     ELSE openPanel
  /\ UNCHANGED <<auth, modal>>

\* The response interceptor on a 401 with what it sets off outside the store:
\* the auth:logout event (setUser(null), and with it MainPage's effect) and
\* the redirect to /?expired=true.
sessionExpired(req) ==
  /\ responseInterceptorError(req)
  /\ auth' = [isAuthenticated |-> FALSE, expired |-> TRUE]
  /\ panel' = LoggedOutPanel
  /\ UNCHANGED modal

\* The redirect is done: the page is loaded anew, with a new store, no user
\* (the saved one was removed) and none of the old page's requests.
reloadPage ==
  /\ auth.expired
  /\ ResetFields
  /\ userId' = NullId
  /\ detailMovieId' = NullId
  /\ isLoading' = FALSE
  /\ error' = Null
  /\ pending' = {}
  /\ last' = "none"
  /\ panel' = PanelClosed
  /\ auth' = SignedOut
  /\ modal' = ModalEmpty
  /\ UNCHANGED nRequests

\* A response to a load of the panel arrives: the try branch or the catch
\* block, and the then() of handleApplyFilters.
sessionLoadAnswered ==
  \/ \E req \in pending, r \in Responses :
       /\ loadRecommendedSuccess(req, r[1], r[2]) /\ loadRecommendedThen
       /\ UNCHANGED <<auth, modal>>
  \/ \E req \in pending, err \in Errors :
       /\ loadRecommendedCatch(req, err) /\ loadRecommendedThen
       /\ UNCHANGED <<auth, modal>>

sessionCloseTimeout == closeTimeout /\ UNCHANGED <<auth, modal>>

\* The panel with the user logging in and out around it.
NextSession ==
  \/ login
  \/ logout
  \/ handleChatbotButtonClick
  \/ sessionCloseTimeout
  \/ handleApplyFilters /\ UNCHANGED <<auth, modal>>
  \/ handleResetFilters /\ UNCHANGED <<auth, modal>>
  \/ \E time \in Times : FilterBlockShown /\ setTime(time) /\ UNCHANGED uiVars
  \/ \E genre \in Genres : FilterBlockShown /\ toggleGenre(genre) /\ UNCHANGED uiVars
  \/ FilterBlockShown /\ toggleExcludeAdult /\ UNCHANGED uiVars
  \/ sessionLoadAnswered
  \/ \E req \in pending : sessionExpired(req)
  \/ reloadPage

\* Timers fire, redirects end, and every request is answered.
SpecSession ==
  /\ Init /\ [][NextSession]_vars
  /\ WF_vars(sessionCloseTimeout)
  /\ WF_vars(reloadPage)
  /\ WF_vars(sessionLoadAnswered)

\* ------------------------------------------------------- the detail modal
\* A card of a track is clicked while the modal is not shown (the shown modal
\* covers the page): setDetailMovieId(id), and the modal's effect on the new
\* id starts loadDetail(), which sets isLoading, clears error and sends
\* GET /api/movies/id. The detail the modal holds is left as it is.
clickCard(movieId) ==
  /\ detailMovieId = NullId
  /\ movieId \in Ids(trackAMovies) \cup Ids(trackBMovies)
  /\ CanRequest
  /\ detailMovieId' = movieId
  /\ modal' = [modal EXCEPT !.isLoading = TRUE, !.error = Null]
  /\ LET req == [NoReq EXCEPT !.rid = FreeSlot, !.kind = "detail",
                              !.phase = "awaiting", !.movieId = movieId]
     IN pending' = pending \cup {req}
  /\ nRequests' = nRequests + 1
  /\ UNCHANGED <<filters, userId, trackAMovies, trackATotalRuntime,
                 trackALabel, trackBMovies, trackBTotalRuntime, trackBLabel,
                 excludedIds, recommendedMovies, popularMovies, isLoading,
                 error, last, panel, auth>>

\* handleClose (backdrop, close button, ESC) of the shown modal:
\* setDetailMovieId(null) and setMovieDetail(null). No request is cancelled.
handleClose ==
  /\ detailMovieId # NullId
  /\ setDetailMovieId(NullId)
  /\ modal' = [modal EXCEPT !.movieDetail = NullId]
  /\ UNCHANGED <<panel, auth>>

\* getMovieDetail resolves: setMovieDetail(detail) with the detail of the movie
\* the request was for, then the finally block.
loadDetailSuccess(req) ==
  /\ req \in pending /\ req.kind = "detail" /\ req.phase = "awaiting"
  /\ modal' = [modal EXCEPT !.movieDetail = req.movieId, !.isLoading = FALSE]
  /\ pending' = pending \ {req}
  /\ last' = "loadDetailSuccess"
  /\ UNCHANGED <<storeVars, nRequests, panel, auth>>

\* getMovieDetail rejects (after the interceptor's reset on a 401): the catch
\* block sets the error, then the finally block.
loadDetailCatch(req) ==
  /\ req \in pending /\ req.kind = "detail"
  /\ req.phase \in {"awaiting", "rejected"}
  /\ modal' = [modal EXCEPT !.error = MsgDetail, !.isLoading = FALSE]
  /\ pending' = pending \ {req}
  /\ last' = "loadDetailCatch"
  /\ UNCHANGED <<storeVars, nRequests, panel, auth>>

\* The modal over a loaded store: cards are clicked, the modal is closed, and
\* the detail requests are answered in any order.
NextDetail ==
  \/ \E movieId \in MovieIds : clickCard(movieId)
  \/ handleClose
  \/ \E req \in pending : loadDetailSuccess(req)
  \/ \E req \in pending : responseInterceptorError(req) /\ UNCHANGED uiVars
  \/ \E req \in pending : loadDetailCatch(req)

SpecDetail == InitLoaded /\ [][NextDetail]_vars

\* ============================================================ properties
IsReplace(req) == req.kind \in {"a", "b"}

TrackOf(kind) == IF kind = "a" THEN trackAMovies ELSE trackBMovies
TotalOf(kind) == IF kind = "a" THEN trackATotalRuntime ELSE trackBTotalRuntime

\* The requests a step takes out of pending, when the step is one of the
\* response handler named; no request otherwise.
Handled(handler) == IF last' = handler THEN pending \ pending' ELSE {}

\* The requests a step puts in flight.
Issued == IF nRequests' = nRequests THEN {} ELSE pending' \ pending

\* The step applies the replacement that request req waited for.
AppliesReplacement(req) ==
  removeRecommendedMovieApply(req) \/ removePopularMovieApply(req)

\* The step is the call that puts request req in flight.
IssuesReplacement(req) ==
  /\ req \in pending' /\ req \notin pending
  /\ \/ req.kind = "a" /\ removeRecommendedMovie(req.movieId)
     \/ req.kind = "b" /\ removePopularMovie(req.movieId)

\* C1: once the replacement for a request is applied, the track is as long as
\* it was when the replacement was called for, and the new movie sits at the
\* index the removed movie had.
C1_ReplaceKeepsLengthAndIndex ==
  [][\A req \in Handled("removeRecommendedMovieApply")
                  \cup Handled("removePopularMovieApply") :
       AppliesReplacement(req) =>
         /\ Len(TrackOf(req.kind)') = req.lenAtCall
         /\ TrackOf(req.kind)'[req.movieIndex + 1] = req.newMovie]_vars

\* The budget of an "HH:MM" time, read digit by digit.
BudgetMinutes(time) ==
  (DigitValue(time[1]) * 10 + DigitValue(time[2])) * 60
  + DigitValue(time[4]) * 10 + DigitValue(time[5])

\* The runtimes of the movies of a track other than the one with the given id.
RemainingAfter(movies, movieId) ==
  LET keep == {k \in 1..Len(movies) : movies[k].id # movieId}
      sum[S \in SUBSET keep] ==
        IF S = {} THEN 0
        ELSE LET k == CHOOSE x \in S : TRUE
             IN movies[k].runtime + sum[S \ {k}]
  IN sum[keep]

X90 == convertV2MovieToMovie(ServerMovie(1))
Y30 == convertV2MovieToMovie(ServerMovie(2))

\* C2: the target runtime a replacement request carries is the time budget in
\* minutes less the runtimes of the movies that stay in the track; replacing
\* Y in [X(90), Y(30)] with a budget of 02:30 asks for 60.
C2_TargetRuntime ==
  [][\A req \in Issued :
       IssuesReplacement(req) =>
         /\ req.targetRuntime =
              BudgetMinutes(filters.time)
              - RemainingAfter(TrackOf(req.kind), req.movieId)
         /\ (TrackOf(req.kind) = <<X90, Y30>> /\ filters.time = Time0230
             /\ req.movieId = Y30.id) => req.targetRuntime = 60]_vars

C2_Witness ==
  /\ trackAMovies = <<X90, Y30>>
  /\ filters.time = Time0230
  /\ \E req \in pending :
       /\ req.kind = "a" /\ req.phase = "awaiting"
       /\ req.movieId = Y30.id /\ req.targetRuntime = 60

\* C3: a replacement called for an id that is not in the track changes nothing
\* in the store and sends nothing: in no reachable state can such a call take
\* a step that changes a store field or the requests.
C3_AbsentIsNoOp ==
  \A movieId \in MovieIds :
    /\ movieId \notin Ids(trackAMovies) =>
         ~ENABLED (/\ removeRecommendedMovie(movieId)
                   /\ ~UNCHANGED <<storeVars, pending, nRequests>>)
    /\ movieId \notin Ids(trackBMovies) =>
         ~ENABLED (/\ removePopularMovie(movieId)
                   /\ ~UNCHANGED <<storeVars, pending, nRequests>>)

\* A loaded track in which movie 3 is not: a call for 3 returns at once here,
\* while a call for 1 or 2 could send its request.
C3_Witness ==
  /\ trackAMovies = <<X90, Y30>>
  /\ 3 \notin Ids(trackAMovies)
  /\ pending = {}
  /\ CanRequest

\* The step handles the {success: false} answer to request req.
AnswersNoCandidate(req) == IsReplace(req) /\ reRecommendNoCandidate(req)

\* The step is the catch block of the call that sent request req.
CatchesFailure(req) == IsReplace(req) /\ reRecommendCatch(req)

\* The step is the response interceptor rejecting replacement request req.
RejectsReplacement(req) == IsReplace(req) /\ responseInterceptorError(req)

\* The store after a reset (the fields resetFilters() writes).
IsResetState ==
  /\ filters = DefaultFilters
  /\ trackAMovies = <<>> /\ trackATotalRuntime = 0 /\ trackALabel = LabelADefault
  /\ trackBMovies = <<>> /\ trackBTotalRuntime = 0 /\ trackBLabel = LabelBDefault
  /\ excludedIds = <<>> /\ recommendedMovies = <<>> /\ popularMovies = <<>>

Touched == IF pending' = pending THEN {}
           ELSE (pending \ pending') \cup (pending' \ pending)

\* The step is one a replacement call takes for its request req: the call that
\* sends it or the handling of the answer, whatever the answer.
ReplaceStepOf(req) ==
  /\ IsReplace(req)
  /\ \/ IssuesReplacement(req)
     \/ \E i \in MovieIds : reRecommendSuccess(req, i)
     \/ reRecommendNoCandidate(req)
     \/ reRecommendCatch(req)
     \/ AppliesReplacement(req)

C7_ExclusionGrowsByTwo ==
  [][\A req \in Handled("removeRecommendedMovieApply")
                  \cup Handled("removePopularMovieApply") :
       AppliesReplacement(req) =>
         SeqRange(excludedIds') =
           SeqRange(excludedIds) \cup {req.movieId, req.newMovie.id}]_vars

\* The movies with the given ids as the server sends them, mapped.
Mapped(ids) == [k \in 1..Len(ids) |-> convertV2MovieToMovie(ServerMovie(ids[k]))]

\* C8: when a load succeeds, both tracks are the response's movies, mapped,
\* whatever they held before; isLoading is false, error is null, and the
\* exclusion list holds exactly the ids of the movies now in the two tracks.
C8_LoadSuccess ==
  [][\A req \in Handled("loadRecommendedSuccess") : \A r \in Responses :
       loadRecommendedSuccess(req, r[1], r[2]) =>
         /\ trackAMovies' = Mapped(r[1])
         /\ trackBMovies' = Mapped(r[2])
         /\ isLoading' = FALSE
         /\ error' = Null
         /\ SeqRange(excludedIds') = Ids(trackAMovies') \cup Ids(trackBMovies')
         /\ SeqRange(excludedIds') = SeqRange(r[1]) \cup SeqRange(r[2])]_vars

\* Two loads were made and the response stored last fills both tracks.
C8_Witness ==
  /\ last = "loadRecommendedSuccess"
  /\ nRequests = 2
  /\ pending = {}
  /\ trackAMovies = <<X90>>
  /\ trackBMovies = <<Y30>>
  /\ excludedIds = <<1, 2>>
  /\ isLoading = FALSE
  /\ error = Null

\* C9: in every reachable state each track's total runtime is the sum of the
\* runtimes of the movies in the track.
C9_TotalIsSum ==
  /\ trackATotalRuntime = SumRuntime(trackAMovies)
  /\ trackBTotalRuntime = SumRuntime(trackBMovies)

\* C10: when a load fails, isLoading is false, error is set and both tracks
\* are empty.
C10_LoadFailure ==
  [][\A req \in Handled("loadRecommendedCatch") : \A err \in Errors :
       loadRecommendedCatch(req, err) =>
         /\ isLoading' = FALSE
         /\ error' # Null
         /\ trackAMovies' = <<>> /\ trackBMovies' = <<>>
         /\ recommendedMovies' = <<>> /\ popularMovies' = <<>>]_vars

\* A load has failed after an earlier one had filled track A.
C10_Witness ==
  /\ last = "loadRecommendedCatch"
  /\ trackALabel = ServerLabelA
  /\ excludedIds = <<1, 2>>
  /\ error = MsgServer
  /\ isLoading = FALSE
  /\ trackAMovies = <<>>

\* The message of the kind a failure belongs to: the server could not be
\* reached, a 401, any 5xx status, anything else.
KindMessage(err) ==
  IF err.code = "ERR_NETWORK" THEN MsgNetwork
  ELSE IF err.status = 401 THEN MsgLogin
  ELSE IF err.status \in 500..599 THEN MsgServer
  ELSE MsgGeneric

\* C11: when a load fails, the stored message is the one of the failure's
\* kind: network unreachable, unauthenticated for a 401, server fault for any
\* 5xx, generic for everything else.
C11_ClassifiesFailure ==
  [][\A req \in Handled("loadRecommendedCatch") : \A err \in Errors :
       loadRecommendedCatch(req, err) => error' = KindMessage(err)]_vars

\* The step is a call of a local operation or an early return: no request is
\* sent and none is answered.
LocalStep == pending' = pending

\* C12: isLoading and a non-null error never hold together, and every start
\* of a load ends, in that one step, with isLoading true and error null.
C12_LoadingExcludesError ==
  /\ [](~(isLoading /\ error # Null))
  /\ [][\A req \in Issued :
          (req.kind = "load" /\ loadRecommended)
            => isLoading' = TRUE /\ error' = Null]_vars

\* A load is out that was started after an earlier load had failed.
C12_Witness ==
  /\ isLoading = TRUE
  /\ error = Null
  /\ last = "loadRecommendedCatch"
  /\ nRequests = 2
  /\ \E req \in pending : req.kind = "load" /\ req.phase = "awaiting"

FilterEditFrame ==
  UNCHANGED <<trackAMovies, trackATotalRuntime, trackALabel, trackBMovies,
              trackBTotalRuntime, trackBLabel, recommendedMovies,
              popularMovies, detailMovieId, isLoading, error, userId,
              pending, nRequests>>

\* C14: a filter edit sets its own field of the filters (time, genres,
\* excludeAdult) and leaves the two other fields, the tracks, totals, labels,
\* inspected id, isLoading and error as they are; no request is sent.
C14_FilterEditFrame ==
  [][LocalStep =>
       /\ \A time \in Times :
            setTime(time) => /\ filters' = [filters EXCEPT !.time = time]
                             /\ FilterEditFrame
       /\ \A genre \in Genres :
            toggleGenre(genre) =>
              /\ filters'.time = filters.time
              /\ filters'.excludeAdult = filters.excludeAdult
              /\ (genre \in SeqRange(filters'.genres))
                   = (genre \notin SeqRange(filters.genres))
              /\ SeqRange(filters'.genres) \ {genre}
                   = SeqRange(filters.genres) \ {genre}
              /\ FilterEditFrame
       /\ toggleExcludeAdult =>
            /\ filters' = [filters EXCEPT !.excludeAdult = ~@]
            /\ FilterEditFrame]_vars

\* All three filters were edited after a load and the loaded track and its
\* total are still there.
C14_Witness ==
  /\ filters = [time |-> Time0230, genres |-> <<"Action">>, excludeAdult |-> TRUE]
  /\ trackAMovies = <<X90, Y30>>
  /\ trackATotalRuntime = 120
  /\ trackALabel = ServerLabelA
  /\ isLoading = FALSE
  /\ excludedIds = <<>>

\* C15: after resetFilters(), from any reachable state, the filters are the
\* defaults, both tracks are empty with total 0, the exclusion list is empty,
\* isLoading is false and error is null.
C15_ResetClearsAll ==
  [][(LocalStep /\ resetFilters)
       => IsResetState' /\ isLoading' = FALSE /\ error' = Null]_vars

\* The step ends the filter session: a filter edit or a reset (the store's own
\* or the one the response interceptor makes on a 401).
SessionEnds ==
  \/ \E time \in Times : setTime(time)
  \/ \E genre \in Genres : toggleGenre(genre)
  \/ toggleExcludeAdult
  \/ resetFilters
  \/ \E req \in pending : responseInterceptorError(req)

\* C16: the exclusion list always holds the id of every movie that is in a
\* track, and within a filter session (no filter edit, no reset) no step takes
\* an id out of it; so it holds every id that was in a track in the session.
C16_ExclusionCoversSession ==
  /\ [](Ids(trackAMovies) \cup Ids(trackBMovies) \subseteq SeqRange(excludedIds))
  /\ [][~SessionEnds => SeqRange(excludedIds) \subseteq SeqRange(excludedIds')]_vars

\* C17: applying a replacement leaves every movie of the track that is not
\* the one replaced at the index it had, and puts the new movie at the index
\* captured at the call when the track still reaches that far.
C17_ReplaceKeepsOrder ==
  [][\A req \in Handled("removeRecommendedMovieApply")
                  \cup Handled("removePopularMovieApply") :
       AppliesReplacement(req) =>
         LET before == TrackOf(req.kind)
             after == TrackOf(req.kind)'
         IN /\ \A k \in 1..Len(before) :
                 before[k].id # req.movieId
                   => k <= Len(after) /\ after[k] = before[k]
            /\ req.movieIndex < Len(before)
                 => after[req.movieIndex + 1] = req.newMovie]_vars

\* The store holds what the response with the track ids r[1], r[2] delivers:
\* tracks, totals, labels and exclusion list.
StoreHolds(r) ==
  /\ trackAMovies = Mapped(r[1])
  /\ trackBMovies = Mapped(r[2])
  /\ trackATotalRuntime = SumRuntime(Mapped(r[1]))
  /\ trackBTotalRuntime = SumRuntime(Mapped(r[2]))
  /\ trackALabel = ServerLabelA
  /\ trackBLabel = ServerLabelB
  /\ excludedIds = r[1] \o r[2]
  /\ recommendedMovies = Mapped(r[1])
  /\ popularMovies = Mapped(r[2])

\* The load request req is still out while a load started at the same time
\* has succeeded: isLoading, set when req was sent, has been cleared since,
\* and with a null error by a load that succeeded.
OverlappedBySuccess(req) ==
  /\ req.kind = "load" /\ req.phase = "awaiting"
  /\ isLoading = FALSE /\ error = Null

\* C18: when the response of a load arrives after an overlapping load has
\* succeeded, then once it is stored the tracks, totals, labels and exclusion
\* list are those of this later response, whichever request was sent first.
C18_LastResponseWins ==
  [][\A req \in Handled("loadRecommendedSuccess") :
       OverlappedBySuccess(req) =>
         \A r \in Responses :
           loadRecommendedSuccess(req, r[1], r[2]) => StoreHolds(r)']_vars

\* Two loads were sent; the response of the second one sent is stored and
\* the first one sent is still out: its response is the one to arrive last.
C18_Witness ==
  /\ nRequests = 2
  /\ \E req \in pending : OverlappedBySuccess(req) /\ req.rid = 1
  /\ Cardinality(pending) = 1
  /\ StoreHolds(<<<<1, 2>>, <<3>>>>)

\* C19: the panel never has more than one load request out.
C19_OneLoadInFlight ==
  Cardinality({req \in pending : req.kind = "load"}) <= 1

\* C20: setDetailMovieId(x), for null or an id, in a track or not, ends with
\* detailMovieId = x, every other field as it was and no request sent.
C20_SetDetailFrame ==
  [][LocalStep =>
       \A movieId \in DetailIds :
         setDetailMovieId(movieId) =>
           /\ detailMovieId' = movieId
           /\ UNCHANGED <<filters, userId, trackAMovies, trackATotalRuntime,
                          trackALabel, trackBMovies, trackBTotalRuntime,
                          trackBLabel, excludedIds, recommendedMovies,
                          popularMovies, isLoading, error, pending,
                          nRequests>>]_vars

\* Movie 1 is inspected while it is in neither track (both are empty) and a
\* load is out.
C20_Witness ==
  /\ detailMovieId = 1
  /\ 1 \notin Ids(trackAMovies) \cup Ids(trackBMovies)
  /\ isLoading = TRUE
  /\ \E req \in pending : req.kind = "load"

\* The recommendation state at its defaults: default filters, both tracks
\* empty, exclusion list empty.
AtDefaults ==
  /\ filters = DefaultFilters
  /\ trackAMovies = <<>> /\ trackBMovies = <<>>
  /\ excludedIds = <<>>

\* C21: once the user is logged out, by logout() or by a 401, the store gets
\* back to its defaults (default filters, both tracks empty, exclusion list
\* empty) unless the user logs in again first, and while the user is logged out
\* no step takes it away from its defaults.
C21_LogoutResets ==
  /\ (~auth.isAuthenticated) ~> (AtDefaults \/ auth.isAuthenticated)
  /\ [][(~auth.isAuthenticated /\ ~auth'.isAuthenticated /\ AtDefaults)
          => AtDefaults']_vars

\* C22: when every request is answered in the end, isLoading does not stay
\* true: whenever it is true it is false again later, with one load out or
\* with several.
C22_LoadsTerminate == isLoading ~> ~isLoading

\* Two loads are out at the same time and isLoading is true.
C22_Witness ==
  /\ isLoading = TRUE
  /\ Cardinality({req \in pending : req.kind = "load" /\ req.phase = "awaiting"}) = 2

\* C23: when a load the panel started fails, the panel shows the error message
\* where the "searching" line was, not the result, and its parent is not told
\* that a recommendation was made.
C23_FailureShowsError ==
  [][\A req \in Handled("loadRecommendedCatch") : \A err \in Errors :
       loadRecommendedCatch(req, err) =>
         /\ panel'.messages = "error"
         /\ panel'.isRecommended = panel.isRecommended]_vars

\* C24: after a load and before the next load or reset, whatever replacements
\* are called and however they overlap, no track holds more movies than the
\* load delivered for it.
C24_TrackNeverGrows ==
  /\ Len(trackAMovies) <= Len(Delivered.track_a.movies)
  /\ Len(trackBMovies) <= Len(Delivered.track_b.movies)

\* The panel has started no load since the store was last reset (by the close
\* timer or the back-to-start button) or since the page was loaded: it shows
\* nothing or the filter block.
NoLoadSinceReset == panel.messages \in {"none", "filter"}

\* C25: from a reset until the next load is started, both tracks and the
\* exclusion list stay empty: no step but the start of a load changes that,
\* the answer to a request sent before the reset included.
C25_ResetStaysEmpty ==
  [][(NoLoadSinceReset /\ nRequests' = nRequests)
       => /\ trackAMovies' = <<>> /\ trackBMovies' = <<>>
          /\ excludedIds' = <<>>]_vars

\* C26: when the panel is opened after it was closed for longer than its
\* 200 ms timer (the timer has fired, or the panel was never open), it shows
\* the filter block and the store holds the default filters and empty tracks.
C26_OpensAtStart ==
  [][(~panel.isOpen /\ ~panel.timer /\ panel'.isOpen)
       => /\ panel'.messages = "filter"
          /\ filters' = DefaultFilters
          /\ trackAMovies' = <<>> /\ trackBMovies' = <<>>]_vars

\* No two positions of the track hold the same id.
DistinctIds(movies) ==
  \A h, k \in 1..Len(movies) : movies[h].id = movies[k].id => h = k

\* C27: with load responses whose tracks hold distinct ids and replacement
\* answers that are never among the excluded ids of their request (Responses
\* and Candidates are such), no track ever holds the same id twice.
C27_NoDuplicateIds == DistinctIds(trackAMovies) /\ DistinctIds(trackBMovies)

\* C28: once no detail request is out, the detail the modal holds is the one
\* of the movie detailMovieId names, or none (the request failed or the modal
\* is closed): never the detail of an id selected earlier, and none at all
\* when no id is selected.
C28_DetailMatchesSelection ==
  (\A req \in pending : req.kind # "detail")
    => modal.movieDetail \in {NullId, detailMovieId}

\* PopularList's displayMovies, card by card: the movies of popularMovies, and
\* empty cards (ids -200, -201, ...) after them while there are fewer than 3.
DisplayMovies(movies) ==
  LET n == IF Len(movies) < 3 THEN 3 ELSE Len(movies)
  IN [k \in 1..n |->
        IF k <= Len(movies) THEN [id |-> movies[k].id, isEmpty |-> FALSE]
        ELSE [id |-> -200 - (k - 1), isEmpty |-> TRUE]]

\* The ids of the cards that show a movie, in their order.
ShownIds(cards) ==
  LET shown == SelectSeq(cards, LAMBDA card : ~card.isEmpty)
  IN [k \in 1..Len(shown) |-> shown[k].id]

\* C29: in every reachable state recommendedMovies is the sequence of track
\* A's movies and popularMovies the sequence of track B's; the movie cards
\* PopularList shows are track B's movies in their order (followed by empty
\* cards up to three).
C29_ListsMirrorTracks ==
  /\ recommendedMovies = trackAMovies
  /\ popularMovies = trackBMovies
  /\ ShownIds(DisplayMovies(popularMovies))
       = [k \in 1..Len(trackBMovies) |-> trackBMovies[k].id]

\* A replacement was applied to track B after a load that filled both tracks.
C29_Witness ==
  /\ last = "removePopularMovieApply"
  /\ trackBMovies = <<convertV2MovieToMovie(ServerMovie(3))>>
  /\ popularMovies = trackBMovies
  /\ recommendedMovies = <<X90>>

\* C30: isLoading is true in every state in which a load request is out.
C30_LoadingWhileLoadOut ==
  (\E req \in pending : req.kind = "load") => isLoading = TRUE

====
